---- MODULE Spec2Model ----
(***************************************************************************)
(* Job persistence and lifecycle coordination of the Telegram bot runtime: *)
(* JobStorage (one JSON file per job_id), SchedulerManager (APScheduler    *)
(* facade plus the job_id -> plugin instance registry), the plugin base    *)
(* classes' safe wrappers, the /plugins admin command and main()'s         *)
(* restore / bootstrap / run / shutdown sequence.                          *)
(***************************************************************************)
EXTENDS Integers, Sequences, FiniteSets, TLC

(* ------------------------------ bounds -------------------------------- *)

\* Highest value of the wall clock (datetime.now() reads it).
MaxNow == 1
\* Bodies (send / handle) run over a whole behaviour.
MaxFires == 2
\* Process restarts over a whole behaviour.
MaxRestarts == 1
\* Handlers one plugin instance may have added to the Telegram application.
MaxHandlers == 2
\* Coordinator operations (register, unregister, remove, reschedule) called
\* while the bot runs, over a whole behaviour.
MaxOps == 1
\* Environment failures (a failed file write or removal, a failed Telegram
\* send) over a whole behaviour.
MaxFaults == 1

(* ------------------------- the plugin classes ------------------------- *)

\* TestPlugin and PluginManagerCommand are the repository's concrete
\* plugins; ReminderPlugin stands for a concrete subclass of BaseHybrid
\* (the docstring's example), which the repository leaves to plugin authors.
Classes == {"TestPlugin", "PluginManagerCommand", "ReminderPlugin"}

_get_plugin_type(c) ==
    CASE c = "TestPlugin" -> "outgoing"
      [] c = "PluginManagerCommand" -> "incoming"
      [] OTHER -> "hybrid"

get_plugin_name(c) ==
    CASE c = "TestPlugin" -> "tests"
      [] c = "PluginManagerCommand" -> "plugin_manager"
      [] OTHER -> "reminders"

\* f"{self.__class__.__name__}_job" (BaseSender, BaseHybrid) and
\* f"{self.__class__.__name__}_handler" (BaseHandler).
get_job_id(c) ==
    CASE c = "TestPlugin" -> "TestPlugin_job"
      [] c = "PluginManagerCommand" -> "PluginManagerCommand_handler"
      [] OTHER -> "ReminderPlugin_job"

get_schedule(c) == [trigger |-> "interval", minutes |-> 5]

get_description(c) ==
    CASE c = "TestPlugin" -> "Test plugin"
      [] c = "PluginManagerCommand" -> "Plugin management commands"
      [] OTHER -> "ReminderPlugin - HYBRID plugin"

JobIds == {get_job_id(c) : c \in Classes}

\* The plugin class whose get_job_id() is j.
ClassOf(j) == CHOOSE c \in Classes : get_job_id(c) = j

(* ----------------------------- JobStorage ----------------------------- *)

\* None as a timestamp ('last_execution': None).
NoTime == -1

\* dict.update: the keys of u are set in r.
update(r, u) ==
    [k \in DOMAIN r \cup DOMAIN u |-> IF k \in DOMAIN u THEN u[k] ELSE r[k]]

\* dict.pop(key, None) and os.remove: the mapping without key.
pop(f, key) == [k \in DOMAIN f \ {key} |-> f[k]]

\* What a write that failed after open(file_path, 'w') leaves: a file that
\* json.load cannot parse.
Corrupt == [corrupt |-> TRUE]

required_fields ==
    {"job_id", "plugin_type", "plugin_name", "plugin_class", "schedule"}

valid_types == {"outgoing", "incoming", "hybrid"}

\* The validation checking the required fields only.
_validate_job_data_fields_only(job_data) ==
    required_fields \subseteq DOMAIN job_data

_validate_job_data(job_data) ==
    /\ required_fields \subseteq DOMAIN job_data
    /\ job_data.plugin_type \in valid_types
    /\ "trigger" \in DOMAIN job_data.schedule

create_job_data(job_id, plugin_type, plugin_name, plugin_class, schedule, description, active, t) ==
    [job_id |-> job_id,
     plugin_type |-> plugin_type,
     plugin_name |-> plugin_name,
     plugin_class |-> plugin_class,
     schedule |-> schedule,
     metadata |-> [description |-> description,
                   active |-> active,
                   created_at |-> t,
                   execution_count |-> 0,
                   last_execution |-> NoTime,
                   error_count |-> 0]]

\* How the write of one file can end: done; open() raised (the file is as
\* it was); json.dump raised after open() truncated the file.
SaveOutcomes == {"ok", "open_error", "write_error"}

\* A datetime object, which APScheduler takes for the date parameters of a
\* trigger beside an ISO string; json has no encoding for it.
PyDatetime == "datetime.datetime(2026, 1, 1, 0, 0)"

DateParams == {"run_date", "start_date", "end_date"}

\* json.dump(job_data, f) and json.load(f): a record's values are str, int,
\* bool, None and dicts of those with str keys, which json writes and reads
\* back as the same values; a datetime among the schedule's parameters makes
\* json.dump raise TypeError after the part before it has been written.
json_encodable(job_data) ==
    \A k \in DOMAIN job_data.schedule \cap DateParams :
        job_data.schedule[k] # PyDatetime

\* save_job that leaves a record already stored under the job_id alone.
save_job_keep_first(st, job_data, io, t) ==
    IF ~_validate_job_data(job_data) THEN [store |-> st, ret |-> FALSE]
    ELSE LET rec == update(job_data, [saved_at |-> t, version |-> "1.0"])
             job_id == rec.job_id
         IN  CASE io = "open_error" -> [store |-> st, ret |-> FALSE]
               [] io = "ok" /\ json_encodable(rec) ->
                    [store |-> IF job_id \in DOMAIN st THEN st
                               ELSE update(st, [k \in {job_id} |-> rec]),
                     ret |-> TRUE]
               [] OTHER ->
                    [store |-> update(st, [k \in {job_id} |-> Corrupt]),
                     ret |-> FALSE]

\* save_job writing a record with the active flag of a new record.
save_job_resets_active(st, job_data, io, t) ==
    IF ~_validate_job_data(job_data) THEN [store |-> st, ret |-> FALSE]
    ELSE LET rec == update(job_data,
                           [saved_at |-> t, version |-> "1.0",
                            metadata |->
                                [job_data.metadata EXCEPT !.active = TRUE]])
             job_id == rec.job_id
         IN  CASE io = "open_error" -> [store |-> st, ret |-> FALSE]
               [] io = "ok" /\ json_encodable(rec) ->
                    [store |-> update(st, [k \in {job_id} |-> rec]),
                     ret |-> TRUE]
               [] OTHER ->
                    [store |-> update(st, [k \in {job_id} |-> Corrupt]),
                     ret |-> FALSE]

\* save_job on store st at time t: [store |-> the files after, ret |-> bool].
save_job(st, job_data, io, t) ==
    IF ~_validate_job_data(job_data) THEN [store |-> st, ret |-> FALSE]
    ELSE LET rec == update(job_data, [saved_at |-> t, version |-> "1.0"])
             job_id == rec.job_id
         IN  CASE io = "open_error" -> [store |-> st, ret |-> FALSE]
               [] io = "ok" /\ json_encodable(rec) ->
                    [store |-> update(st, [k \in {job_id} |-> rec]),
                     ret |-> TRUE]
               [] OTHER ->
                    [store |-> update(st, [k \in {job_id} |-> Corrupt]),
                     ret |-> FALSE]

NoneRec == [none |-> TRUE]

\* load_job returning whatever json.load parsed, without validating it.
load_job_unvalidated(st, job_id) ==
    IF job_id \notin DOMAIN st THEN NoneRec
    ELSE IF st[job_id] = Corrupt THEN NoneRec
    ELSE st[job_id]

\* load_job: the parsed file if it exists and validates, else None.
load_job(st, job_id) ==
    IF job_id \notin DOMAIN st THEN NoneRec
    ELSE IF st[job_id] = Corrupt THEN NoneRec
    ELSE IF _validate_job_data(st[job_id]) THEN st[job_id]
    ELSE NoneRec

\* load_all_jobs: one entry per file that load_job returns, keyed by file.
load_all_jobs(st) ==
    {load_job(st, f) : f \in {g \in DOMAIN st : load_job(st, g) # NoneRec}}

DeleteOutcomes == {"ok", "remove_error"}

\* delete_job reporting success for a file that was not there.
delete_job_missing_ok(st, job_id, io) ==
    IF io = "ok"
    THEN [store |-> pop(st, job_id), ret |-> TRUE]
    ELSE [store |-> st, ret |-> FALSE]

delete_job(st, job_id, io) ==
    IF job_id \in DOMAIN st /\ io = "ok"
    THEN [store |-> pop(st, job_id), ret |-> TRUE]
    ELSE [store |-> st, ret |-> FALSE]

job_exists(st, job_id) == job_id \in DOMAIN st

\* job_data.get('metadata', {}).get('active', True)
get_active(job_data) ==
    IF "metadata" \in DOMAIN job_data
       /\ "active" \in DOMAIN job_data.metadata
    THEN job_data.metadata.active
    ELSE TRUE

(* ------------------- APScheduler behind SchedulerManager -------------- *)

\* The trigger aliases AsyncIOScheduler.add_job resolves; any other alias
\* ('none' of a handler record) raises LookupError.
KnownTriggers == {"interval", "cron", "date"}

\* The live side as the coordinator's operations see it:
\*   store     file name (job_id) -> file content
\*   jobs      APScheduler's jobs: id -> [func, schedule, paused]
\*   registry  SchedulerManager._plugin_registry: job_id -> plugin instance
\*   handlers  handlers added to the Telegram application, per instance
\* An operation maps such a record S to [S |-> the record after, ret |-> ...].

\* SchedulerManager.add_job: scheduler.add_job raises for an unknown trigger
\* and, once the scheduler runs, for an id it already holds
\* (ConflictingIdError); before start() the job is only queued.
add_job(S, running, func, job_id, schedule) ==
    IF /\ schedule.trigger \in KnownTriggers
       /\ (running => job_id \notin DOMAIN S.jobs)
    THEN [S |-> [S EXCEPT !.jobs =
                    update(S.jobs, [k \in {job_id} |->
                        [func |-> func, schedule |-> schedule,
                         paused |-> FALSE]])],
          ret |-> TRUE]
    ELSE [S |-> S, ret |-> FALSE]

\* register_plugin_job keeping the registry entry it set when add_job
\* failed.
register_plugin_job_keep_registry(S, running, plugin_instance, job_data, io, t) ==
    LET job_id == job_data.job_id
        S1 == [S EXCEPT !.registry =
                  update(S.registry, [k \in {job_id} |-> plugin_instance])]
        added == add_job(S1, running, plugin_instance, job_id,
                         job_data.schedule)
    IN  IF added.ret
        THEN [S |-> [added.S EXCEPT !.store =
                        save_job(added.S.store, job_data, io, t).store],
              ret |-> TRUE]
        ELSE [S |-> S1, ret |-> FALSE]

register_plugin_job(S, running, plugin_instance, job_data, io, t) ==
    LET job_id == job_data.job_id
        S1 == [S EXCEPT !.registry =
                  update(S.registry, [k \in {job_id} |-> plugin_instance])]
        added == add_job(S1, running, plugin_instance, job_id,
                         job_data.schedule)
    IN  IF added.ret
        THEN [S |-> [added.S EXCEPT !.store =
                        save_job(added.S.store, job_data, io, t).store],
              ret |-> TRUE]
        ELSE [S |-> [S1 EXCEPT !.registry = pop(S1.registry, job_id)],
              ret |-> FALSE]

\* scheduler.remove_job raises JobLookupError for an id it does not hold;
\* the except clause then returns False before the store is touched.
remove_job(S, job_id, io) ==
    IF job_id \notin DOMAIN S.jobs THEN [S |-> S, ret |-> FALSE]
    ELSE [S |-> [S EXCEPT !.jobs = pop(S.jobs, job_id),
                          !.store = delete_job(S.store, job_id, io).store,
                          !.registry = pop(S.registry, job_id)],
          ret |-> TRUE]

\* scheduler.reschedule_job replaces the trigger and recomputes the next
\* run time (a paused job runs again); the store is not written.
reschedule_job(S, job_id, schedule) ==
    IF job_id \in DOMAIN S.jobs /\ schedule.trigger \in KnownTriggers
    THEN [S |-> [S EXCEPT !.jobs[job_id].schedule = schedule,
                          !.jobs[job_id].paused = FALSE],
          ret |-> TRUE]
    ELSE [S |-> S, ret |-> FALSE]

(* ------------------------- BasePlugin metadata ------------------------ *)

NoError == [context |-> "None", timestamp |-> NoTime]

\* The mutable part of a fresh instance: metadata's counters and
\* last_execution, _is_healthy and _last_error.
_get_default_metadata ==
    [last_execution |-> NoTime, execution_count |-> 0, error_count |-> 0,
     is_healthy |-> TRUE, last_error |-> NoError]

\* handle_error without "self.metadata['error_count'] += 1".
handle_error_no_count(m, context, t) ==
    [m EXCEPT !.is_healthy = FALSE,
              !.last_error = [context |-> context, timestamp |-> t]]

handle_error(m, context, t) ==
    [m EXCEPT !.is_healthy = FALSE,
              !.last_error = [context |-> context, timestamp |-> t],
              !.error_count = @ + 1]

log_execution(m, t) ==
    [m EXCEPT !.last_execution = t,
              !.execution_count = @ + 1,
              !.is_healthy = TRUE]

\* validate_config: BasePlugin's returns True; TestPlugin's needs a
\* recipient, which main() guarantees by refusing to start without
\* ADMIN_CHAT_ID.
validate_config(c) == TRUE

(* --------------- registration (BaseSender, BaseHandler, BaseHybrid) --- *)

\* BaseSender.register_job and BaseHybrid.register_job.
register_job(S, running, c, io, t) ==
    IF ~validate_config(c) THEN [S |-> S, ret |-> FALSE]
    ELSE register_plugin_job(S, running, c,
            create_job_data(get_job_id(c), _get_plugin_type(c),
                            get_plugin_name(c), c, get_schedule(c),
                            get_description(c), TRUE, t),
            io, t)

\* application.add_handler(CommandHandler(command, self._safe_handle_wrapper))
add_handler(S, c) == [S EXCEPT !.handlers[c] = @ + 1]

\* BaseHandler.register_handler (handler type 'command', the application
\* initialised by main() before anything registers).
register_handler(S, c, save_to_storage, io, t) ==
    IF ~validate_config(c) THEN [S |-> S, ret |-> FALSE]
    ELSE LET S1 == add_handler(S, c)
             job_data ==
                create_job_data(get_job_id(c), _get_plugin_type(c),
                                get_plugin_name(c), c, [trigger |-> "none"],
                                get_description(c), TRUE, t)
             S2 == IF save_to_storage
                   THEN [S1 EXCEPT !.store =
                            save_job(S1.store, job_data, io, t).store]
                   ELSE S1
         IN  [S |-> [S2 EXCEPT !.registry =
                        update(S2.registry, [k \in {get_job_id(c)} |-> c])],
              ret |-> TRUE]

\* BaseHandler.unregister_handler: the application keeps the handler.
unregister_handler(S, c, io) ==
    [S |-> [S EXCEPT !.store = delete_job(S.store, get_job_id(c), io).store,
                     !.registry = pop(S.registry, get_job_id(c))],
     ret |-> TRUE]

\* BaseHybrid.register_handler: the handler is added; neither the store nor
\* the registry is written.
hybrid_register_handler(S, c) == [S |-> add_handler(S, c), ret |-> TRUE]

\* BaseHybrid.register: both components, the handler whatever the job did.
hybrid_register(S, running, c, io, t) ==
    LET job == register_job(S, running, c, io, t)
        handler == hybrid_register_handler(job.S, c)
    IN  [S |-> handler.S, ret |-> job.ret /\ handler.ret]

(* ----------------------------- the wrappers --------------------------- *)

\* _is_plugin_active reading 'active' at the top level of the record, where
\* no record keeps it, instead of under 'metadata'.
_is_plugin_active_top_level(st, c) ==
    LET job_data == load_job(st, get_job_id(c))
    IN  IF job_data # NoneRec
        THEN (IF "active" \in DOMAIN job_data THEN job_data.active ELSE TRUE)
        ELSE TRUE

\* _is_plugin_active taking a plugin whose record load_job does not return
\* for disabled.
_is_plugin_active_default_false(st, c) ==
    LET job_data == load_job(st, get_job_id(c))
    IN  IF job_data # NoneRec THEN get_active(job_data) ELSE FALSE

\* _is_plugin_active of the three base classes: the flag of the record
\* stored under the instance's own get_job_id(), True when load_job gives
\* None.
_is_plugin_active(st, c) ==
    LET job_data == load_job(st, get_job_id(c))
    IN  IF job_data # NoneRec THEN get_active(job_data) ELSE TRUE

\* How a body (send, handle) written by a plugin author can end.
BodyOutcomes == {"ok", "raise"}

(* ------------------------ PluginManagerCommand ------------------------ *)

\* The chats an update can come from; admin_chat_id is ADMIN_CHAT_ID.
Chats == {"admin", "other"}
admin_chat_id == "admin"

\* The Telegram API during one update: every send works; the first send
\* raises and later ones work; every send raises.
NetOutcomes == {"up", "flaky", "down"}

\* context.args of a /plugins command.
Actions == {"enable", "disable", "status", "bogus"}
JobArgs == JobIds
Args == {<<>>, <<"enable">>} \cup {<<a, j>> : a \in Actions, j \in JobArgs}

\* reply_text(text) outside a try block: the reply, or the exception.
reply_text(S, text, net) ==
    IF net = "up" THEN [S |-> S, reply |-> text, raised |-> FALSE]
    ELSE [S |-> S, reply |-> "none", raised |-> TRUE]

\* reply_text(text) inside "try: ... except: reply_text(error text)": a
\* failed reply is answered by the error text, which can fail in turn.
reply_in_try(S, text, net) ==
    CASE net = "up" -> [S |-> S, reply |-> text, raised |-> FALSE]
      [] net = "flaky" -> [S |-> S, reply |-> "error", raised |-> FALSE]
      [] OTHER -> [S |-> S, reply |-> "none", raised |-> TRUE]

_list_plugins(S, net) ==
    IF load_all_jobs(S.store) = {}
    THEN reply_in_try(S, "no_plugins", net)
    ELSE reply_in_try(S, "list", net)

_enable_plugin(S, job_id, io, t, net) ==
    LET job_data == load_job(S.store, job_id)
    IN  IF job_data = NoneRec THEN reply_in_try(S, "not_found", net)
        ELSE IF get_active(job_data)
        THEN reply_in_try(S, "already_enabled", net)
        ELSE LET new == [job_data EXCEPT !.metadata.active = TRUE]
                 S1 == [S EXCEPT !.store = save_job(S.store, new, io, t).store]
             IN  IF job_data.plugin_type = "outgoing"
                 THEN IF job_id \in DOMAIN S1.jobs
                      THEN reply_in_try(
                              [S1 EXCEPT !.jobs[job_id].paused = FALSE],
                              "enabled_resumed", net)
                      ELSE reply_in_try(S1, "enabled_not_running", net)
                 ELSE reply_in_try(S1, "enabled", net)

_disable_plugin(S, job_id, io, t, net) ==
    LET job_data == load_job(S.store, job_id)
    IN  IF job_data = NoneRec THEN reply_in_try(S, "not_found", net)
        ELSE IF ~get_active(job_data)
        THEN reply_in_try(S, "already_disabled", net)
        ELSE IF "metadata" \notin DOMAIN job_data
        THEN reply_text(S, "error", net)
        ELSE LET new == [job_data EXCEPT !.metadata.active = FALSE]
                 S1 == [S EXCEPT !.store = save_job(S.store, new, io, t).store]
             IN  IF job_data.plugin_type = "outgoing"
                 THEN IF job_id \in DOMAIN S1.jobs
                      THEN reply_in_try(
                              [S1 EXCEPT !.jobs[job_id].paused = TRUE],
                              "disabled_paused", net)
                      ELSE reply_in_try(S1, "disabled_not_in_scheduler", net)
                 ELSE reply_in_try(S1, "disabled", net)

_show_status(S, job_id, net) ==
    IF load_job(S.store, job_id) = NoneRec
    THEN reply_in_try(S, "not_found", net)
    ELSE reply_in_try(S, "status", net)

\* PluginManagerCommand.handle: [S, reply, raised].
handle(S, chat, args, io, t, net) ==
    IF chat # admin_chat_id THEN reply_text(S, "unauthorized", net)
    ELSE IF Len(args) = 0 THEN _list_plugins(S, net)
    ELSE IF Len(args) = 1 THEN reply_text(S, "usage", net)
    ELSE CASE args[1] = "enable" -> _enable_plugin(S, args[2], io, t, net)
           [] args[1] = "disable" -> _disable_plugin(S, args[2], io, t, net)
           [] args[1] = "status" -> _show_status(S, args[2], net)
           [] OTHER -> reply_text(S, "unknown_action", net)

(* ------------------------------ main.py ------------------------------- *)

\* plugin_loader: the instance for a record's (type, name, class), or None.
NoInstance == "None"

plugin_loader(job_data) ==
    CASE job_data.plugin_type = "outgoing"
            /\ job_data.plugin_name = "tests"
            /\ job_data.plugin_class = "TestPlugin" -> "TestPlugin"
      [] job_data.plugin_type = "incoming"
            /\ job_data.plugin_name = "plugin_manager"
            /\ job_data.plugin_class = "PluginManagerCommand" ->
                "PluginManagerCommand"
      [] OTHER -> NoInstance

(* ------------------------------- state -------------------------------- *)

VARIABLES
    store,        \* storage/: file name (job_id) -> file content
    jobs,         \* APScheduler's jobs: id -> [func, schedule, paused]
    registry,     \* SchedulerManager._plugin_registry
    handlers,     \* handlers added to the application, per plugin instance
    meta,         \* per plugin instance: metadata, _is_healthy, _last_error
    now,          \* the wall clock
    pc,           \* where main() is
    running,      \* scheduler.running
    polling,      \* application.updater.running
    all_jobs,     \* main(): the records of all_jobs not yet looped over
    loaded,       \* main(): loaded_outgoing, loaded_incoming, skipped_inactive
    log_failed,   \* main(): the job_ids logged as failed to load or register
    fires,        \* history: per job_id, the bodies that returned and raised
    restarts,     \* history: process starts after the first
    ops,          \* history: coordinator operations called while running
    faults,       \* history: environment failures so far
    lastOp        \* history: the last operation, its job_id, result, reply,
                  \* write outcome and the update it handled

vars == <<store, jobs, registry, handlers, meta, now, pc, running, polling,
          all_jobs, loaded, log_failed, fires, restarts, ops, faults,
          lastOp>>

EmptyMap == [k \in {} |-> TRUE]

\* The record S the operations work on, and its write-back.
Live == [store |-> store, jobs |-> jobs, registry |-> registry,
         handlers |-> handlers]

SetLive(S) ==
    /\ store' = S.store
    /\ jobs' = S.jobs
    /\ registry' = S.registry
    /\ handlers' = S.handlers

\* io: how the file write or removal the operation makes ends ("none" for an
\* operation that makes none).
\* ev: the chat and context.args of the /plugins update the operation
\* handles (NoEvent for any other operation).
NoEvent == [chat |-> "none", args |-> <<>>]

OpEv(op, id, ret, reply, io, ev) ==
    [op |-> op, id |-> id, ret |-> ret, reply |-> reply, io |-> io, ev |-> ev]

Op(op, id, ret, reply, io) == OpEv(op, id, ret, reply, io, NoEvent)

\* The environment fails once for each input that is not "ok" / "up".
Inject(inputs) ==
    LET n == Cardinality({i \in DOMAIN inputs : inputs[i] \notin {"ok", "up"}})
    IN  /\ faults + n <= MaxFaults
        /\ faults' = faults + n

BoolStr(b) == IF b THEN "True" ELSE "False"

TotalFires ==
    LET RECURSIVE Sum(_)
        Sum(J) == IF J = {} THEN 0
                  ELSE LET j == CHOOSE x \in J : TRUE
                       IN  fires[j].ok + fires[j].bad + Sum(J \ {j})
    IN  Sum(JobIds)

\* A fresh process: SchedulerManager(), TelegramClient.initialize().
FreshProcess ==
    /\ jobs' = EmptyMap
    /\ registry' = EmptyMap
    /\ handlers' = [c \in Classes |-> 0]
    /\ meta' = [c \in Classes |-> _get_default_metadata]
    /\ running' = FALSE
    /\ polling' = FALSE
    /\ all_jobs' = {}
    /\ loaded' = [outgoing |-> 0, incoming |-> 0, inactive |-> 0]
    /\ log_failed' = {}
    /\ pc' = "load"

Init ==
    /\ store = EmptyMap
    /\ jobs = EmptyMap
    /\ registry = EmptyMap
    /\ handlers = [c \in Classes |-> 0]
    /\ meta = [c \in Classes |-> _get_default_metadata]
    /\ now = 0
    /\ pc = "load"
    /\ running = FALSE
    /\ polling = FALSE
    /\ all_jobs = {}
    /\ loaded = [outgoing |-> 0, incoming |-> 0, inactive |-> 0]
    /\ log_failed = {}
    /\ fires = [j \in JobIds |-> [ok |-> 0, bad |-> 0]]
    /\ restarts = 0
    /\ ops = 0
    /\ faults = 0
    /\ lastOp = Op("construct", "None", "None", "none", "none")

(* --------------------------- main(): startup -------------------------- *)

\* main() with scheduler.start() moved above the restore loop.
LoadAll_after_start ==
    /\ pc = "load"
    /\ all_jobs' = load_all_jobs(store)
    /\ pc' = "restore"
    /\ running' = TRUE
    /\ lastOp' = Op("load_all_jobs", "None", "None", "none", "none")
    /\ UNCHANGED <<store, jobs, registry, handlers, meta, now,
                   polling, loaded, log_failed, fires, restarts, ops, faults>>

\* all_jobs = scheduler.job_storage.load_all_jobs()
LoadAll ==
    /\ pc = "load"
    /\ all_jobs' = load_all_jobs(store)
    /\ pc' = "restore"
    /\ lastOp' = Op("load_all_jobs", "None", "None", "none", "none")
    /\ UNCHANGED <<store, jobs, registry, handlers, meta, now, running,
                   polling, loaded, log_failed, fires, restarts, ops, faults>>

\* The loop body without "scheduler._plugin_registry[job_id] = plugin_instance"
\* for an outgoing record.
restore_one_no_registry(S, job_data) ==
    LET job_id == job_data.job_id
        plugin_instance == plugin_loader(job_data)
    IN  IF ~get_active(job_data) THEN [S |-> S, ret |-> "inactive"]
        ELSE IF plugin_instance = NoInstance THEN [S |-> S, ret |-> "failed"]
        ELSE CASE job_data.plugin_type = "outgoing" ->
                    LET added == add_job(S, FALSE, plugin_instance, job_id,
                                         job_data.schedule)
                    IN  IF added.ret
                        THEN [S |-> added.S, ret |-> "outgoing"]
                        ELSE [S |-> S, ret |-> "failed"]
               [] job_data.plugin_type = "incoming" ->
                    LET reg == register_handler(S, plugin_instance, FALSE,
                                                "ok", 0)
                    IN  IF reg.ret THEN [S |-> reg.S, ret |-> "incoming"]
                        ELSE [S |-> reg.S, ret |-> "failed"]
               [] OTHER -> [S |-> S, ret |-> "failed"]

\* The loop body registering an incoming plugin's handler only once the
\* scheduler holds a job.
restore_one_after_jobs(S, job_data) ==
    LET job_id == job_data.job_id
        plugin_instance == plugin_loader(job_data)
    IN  IF ~get_active(job_data) THEN [S |-> S, ret |-> "inactive"]
        ELSE IF plugin_instance = NoInstance THEN [S |-> S, ret |-> "failed"]
        ELSE CASE job_data.plugin_type = "outgoing" ->
                    LET added == add_job(S, FALSE, plugin_instance, job_id,
                                         job_data.schedule)
                    IN  IF added.ret
                        THEN [S |-> [added.S EXCEPT !.registry =
                                update(added.S.registry,
                                       [k \in {job_id} |-> plugin_instance])],
                              ret |-> "outgoing"]
                        ELSE [S |-> S, ret |-> "failed"]
               [] job_data.plugin_type = "incoming" /\ DOMAIN S.jobs # {} ->
                    LET reg == register_handler(S, plugin_instance, FALSE,
                                                "ok", 0)
                    IN  IF reg.ret THEN [S |-> reg.S, ret |-> "incoming"]
                        ELSE [S |-> reg.S, ret |-> "failed"]
               [] OTHER -> [S |-> S, ret |-> "failed"]

\* The loop body keeping the restored outgoing instance in the registry
\* under its class name instead of the record's job_id.
restore_one_key_by_class(S, job_data) ==
    LET job_id == job_data.job_id
        plugin_instance == plugin_loader(job_data)
    IN  IF ~get_active(job_data) THEN [S |-> S, ret |-> "inactive"]
        ELSE IF plugin_instance = NoInstance THEN [S |-> S, ret |-> "failed"]
        ELSE CASE job_data.plugin_type = "outgoing" ->
                    LET added == add_job(S, FALSE, plugin_instance, job_id,
                                         job_data.schedule)
                    IN  IF added.ret
                        THEN [S |-> [added.S EXCEPT !.registry =
                                update(added.S.registry,
                                       [k \in {job_data.plugin_class} |->
                                            plugin_instance])],
                              ret |-> "outgoing"]
                        ELSE [S |-> S, ret |-> "failed"]
               [] job_data.plugin_type = "incoming" ->
                    LET reg == register_handler(S, plugin_instance, FALSE,
                                                "ok", 0)
                    IN  IF reg.ret THEN [S |-> reg.S, ret |-> "incoming"]
                        ELSE [S |-> reg.S, ret |-> "failed"]
               [] OTHER -> [S |-> S, ret |-> "failed"]

\* One pass of "for job_data in all_jobs" (os.listdir gives the files in
\* any order).
restore_one(S, job_data) ==
    LET job_id == job_data.job_id
        plugin_instance == plugin_loader(job_data)
    IN  IF ~get_active(job_data) THEN [S |-> S, ret |-> "inactive"]
        ELSE IF plugin_instance = NoInstance THEN [S |-> S, ret |-> "failed"]
        ELSE CASE job_data.plugin_type = "outgoing" ->
                    LET added == add_job(S, FALSE, plugin_instance, job_id,
                                         job_data.schedule)
                    IN  IF added.ret
                        THEN [S |-> [added.S EXCEPT !.registry =
                                update(added.S.registry,
                                       [k \in {job_id} |-> plugin_instance])],
                              ret |-> "outgoing"]
                        ELSE [S |-> S, ret |-> "failed"]
               [] job_data.plugin_type = "incoming" ->
                    LET reg == register_handler(S, plugin_instance, FALSE,
                                                "ok", 0)
                    IN  IF reg.ret THEN [S |-> reg.S, ret |-> "incoming"]
                        ELSE [S |-> reg.S, ret |-> "failed"]
               [] OTHER -> [S |-> S, ret |-> "failed"]

\* The loop leaving at the first record that fails ("break" where the code
\* has "continue").
RestoreOne_break(job_data) ==
    /\ pc = "restore"
    /\ job_data \in all_jobs
    /\ LET r == restore_one(Live, job_data)
       IN  /\ SetLive(r.S)
           /\ loaded' =
                [outgoing |-> loaded.outgoing
                                + (IF r.ret = "outgoing" THEN 1 ELSE 0),
                 incoming |-> loaded.incoming
                                + (IF r.ret = "incoming" THEN 1 ELSE 0),
                 inactive |-> loaded.inactive
                                + (IF r.ret = "inactive" THEN 1 ELSE 0)]
           /\ log_failed' = IF r.ret = "failed"
                            THEN log_failed \cup {job_data.job_id}
                            ELSE log_failed
           /\ lastOp' = Op("restore", job_data.job_id, r.ret, "none", "none")
           /\ all_jobs' = IF r.ret = "failed" THEN {}
                          ELSE all_jobs \ {job_data}
    /\ UNCHANGED <<meta, now, pc, running, polling, fires, restarts, ops, faults>>

RestoreOne(job_data) ==
    /\ pc = "restore"
    /\ job_data \in all_jobs
    /\ LET r == restore_one(Live, job_data)
       IN  /\ SetLive(r.S)
           /\ loaded' =
                [outgoing |-> loaded.outgoing
                                + (IF r.ret = "outgoing" THEN 1 ELSE 0),
                 incoming |-> loaded.incoming
                                + (IF r.ret = "incoming" THEN 1 ELSE 0),
                 inactive |-> loaded.inactive
                                + (IF r.ret = "inactive" THEN 1 ELSE 0)]
           /\ log_failed' = IF r.ret = "failed"
                            THEN log_failed \cup {job_data.job_id}
                            ELSE log_failed
           /\ lastOp' = Op("restore", job_data.job_id, r.ret, "none", "none")
    /\ all_jobs' = all_jobs \ {job_data}
    /\ UNCHANGED <<meta, now, pc, running, polling, fires, restarts, ops, faults>>

\* "if loaded_outgoing == 0 and loaded_incoming == 0": TestPlugin and
\* PluginManagerCommand are created and registered.
InitDefaults(io1, io2) ==
    /\ Inject(<<io1, io2>>)
    /\ pc = "restore"
    /\ all_jobs = {}
    /\ loaded.outgoing = 0 /\ loaded.incoming = 0
    /\ LET r1 == register_job(Live, running, "TestPlugin", io1, now)
           r2 == register_handler(r1.S, "PluginManagerCommand", TRUE, io2,
                                  now)
       IN  /\ SetLive(r2.S)
           /\ lastOp' = Op("defaults", "None",
                           BoolStr(r1.ret /\ r2.ret), "none", "none")
    /\ pc' = "start_scheduler"
    /\ UNCHANGED <<meta, now, running, polling, all_jobs, loaded,
                   log_failed, fires, restarts, ops>>

SkipDefaults ==
    /\ pc = "restore"
    /\ all_jobs = {}
    /\ ~(loaded.outgoing = 0 /\ loaded.incoming = 0)
    /\ pc' = "start_scheduler"
    /\ lastOp' = Op("no_defaults", "None", "None", "none", "none")
    /\ UNCHANGED <<store, jobs, registry, handlers, meta, now, running,
                   polling, all_jobs, loaded, log_failed, fires, restarts, ops, faults>>

\* scheduler.start()
StartScheduler ==
    /\ pc = "start_scheduler"
    /\ running' = TRUE
    /\ pc' = "start_polling"
    /\ lastOp' = Op("scheduler.start", "None", "None", "none", "none")
    /\ UNCHANGED <<store, jobs, registry, handlers, meta, now, polling,
                   all_jobs, loaded, log_failed, fires, restarts, ops, faults>>

\* application.initialize(), start(), updater.start_polling()
StartPolling ==
    /\ pc = "start_polling"
    /\ polling' = TRUE
    /\ pc' = "running"
    /\ lastOp' = Op("start_polling", "None", "None", "none", "none")
    /\ UNCHANGED <<store, jobs, registry, handlers, meta, now, running,
                   all_jobs, loaded, log_failed, fires, restarts, ops, faults>>

(* ------------------------ dispatch while running ---------------------- *)

Count(f, j, outcome) ==
    IF outcome = "ok" THEN [f EXCEPT ![j].ok = @ + 1]
    ELSE [f EXCEPT ![j].bad = @ + 1]

\* The context the send wrapper hands to handle_error: BaseSender's and
\* BaseHybrid's differ.
send_context(c) ==
    IF _get_plugin_type(c) = "hybrid" THEN "sending scheduled message"
    ELSE "sending message"

\* The wrapper writing the instance's own counters, which start at 0 in
\* every process, into the stored record after the body.
_safe_send_wrapper_persist(j, outcome) ==
    LET c == jobs[j].func
        id == get_job_id(c)
    IN  IF ~_is_plugin_active(store, c)
        THEN /\ lastOp' = Op("send", id, "skipped", "none", "none")
             /\ UNCHANGED <<store, meta, fires>>
        ELSE /\ TotalFires < MaxFires
             /\ meta' = [meta EXCEPT ![c] =
                            IF outcome = "ok" THEN log_execution(@, now)
                            ELSE handle_error(@, send_context(c), now)]
             /\ store' =
                    IF id \in DOMAIN store /\ "metadata" \in DOMAIN store[id]
                    THEN [store EXCEPT
                            ![id].metadata.execution_count =
                                meta'[c].execution_count,
                            ![id].metadata.error_count = meta'[c].error_count]
                    ELSE store
             /\ fires' = Count(fires, id, outcome)
             /\ lastOp' = Op("send", id, outcome, "none", "none")

\* BaseSender._safe_send_wrapper and BaseHybrid._safe_send_wrapper, entered
\* by the scheduler for job j: the gate, then send(), then log_execution or
\* handle_error.  The only state written after "await self.send()" is the
\* instance's own metadata, so the wrapper is one step.
_safe_send_wrapper(j, outcome) ==
    LET c == jobs[j].func
    IN  IF ~_is_plugin_active(store, c)
        THEN /\ lastOp' = Op("send", get_job_id(c), "skipped", "none", "none")
             /\ UNCHANGED <<store, meta, fires>>
        ELSE /\ TotalFires < MaxFires
             /\ store' = store
             /\ meta' = [meta EXCEPT ![c] =
                            IF outcome = "ok" THEN log_execution(@, now)
                            ELSE handle_error(@, send_context(c), now)]
             /\ fires' = Count(fires, get_job_id(c), outcome)
             /\ lastOp' = Op("send", get_job_id(c), outcome, "none", "none")

\* The scheduler fires a job that is not paused.
Fire(j, outcome) ==
    /\ running
    /\ pc \in {"start_polling", "running", "stop_scheduler"}
    /\ j \in DOMAIN jobs
    /\ ~jobs[j].paused
    /\ _safe_send_wrapper(j, outcome)
    /\ UNCHANGED <<jobs, registry, handlers, now, pc, running,
                   polling, all_jobs, loaded, log_failed, restarts, ops, faults>>

\* The wrapper with log_execution() in a "finally" clause: it runs on the
\* early return of a disabled plugin as well.
_safe_handle_wrapper_finally(c, chat, args, io, net) ==
    IF ~_is_plugin_active(store, c)
    THEN /\ lastOp' = OpEv("handle", get_job_id(c), "skipped", "none",
                           "none", [chat |-> chat, args |-> args])
         /\ meta' = [meta EXCEPT ![c] = log_execution(@, now)]
         /\ UNCHANGED <<store, jobs, registry, handlers, fires>>
    ELSE LET body == handle(Live, chat, args, io, now, net)
             outcome == IF body.raised THEN "raise" ELSE "ok"
         IN  /\ TotalFires < MaxFires
             /\ SetLive(body.S)
             /\ meta' = [meta EXCEPT ![c] =
                            IF body.raised
                            THEN handle_error(@, "handling message", now)
                            ELSE log_execution(@, now)]
             /\ fires' = Count(fires, get_job_id(c), outcome)
             /\ lastOp' = OpEv("handle", get_job_id(c), outcome,
                               IF body.raised /\ net = "flaky"
                               THEN "error_notice" ELSE body.reply, "none",
                               [chat |-> chat, args |-> args])

\* BaseHandler._safe_handle_wrapper around PluginManagerCommand.handle, for
\* one /plugins update.  handle() awaits only its replies, after its last
\* write, so the wrapper is one step.
_safe_handle_wrapper(c, chat, args, io, net) ==
    IF ~_is_plugin_active(store, c)
    THEN /\ lastOp' = OpEv("handle", get_job_id(c), "skipped", "none",
                           "none", [chat |-> chat, args |-> args])
         /\ UNCHANGED <<store, jobs, registry, handlers, meta, fires>>
    ELSE LET body == handle(Live, chat, args, io, now, net)
             outcome == IF body.raised THEN "raise" ELSE "ok"
         IN  /\ TotalFires < MaxFires
             /\ SetLive(body.S)
             /\ meta' = [meta EXCEPT ![c] =
                            IF body.raised
                            THEN handle_error(@, "handling message", now)
                            ELSE log_execution(@, now)]
             /\ fires' = Count(fires, get_job_id(c), outcome)
             /\ lastOp' = OpEv("handle", get_job_id(c), outcome,
                               IF body.raised /\ net = "flaky"
                               THEN "error_notice" ELSE body.reply, "none",
                               [chat |-> chat, args |-> args])

\* The application dispatches a /plugins command to the first handler
\* registered for it.
PluginsCommand(chat, args, io, net) ==
    /\ Inject(<<io, net>>)
    /\ polling
    /\ pc = "running"
    /\ handlers["PluginManagerCommand"] > 0
    \* io is the outcome of the one save_job an enable or disable makes
    /\ (Len(args) < 2 \/ args[1] \notin {"enable", "disable"}) => io = "ok"
    /\ _safe_handle_wrapper("PluginManagerCommand", chat, args, io, net)
    /\ UNCHANGED <<now, pc, running, polling, all_jobs, loaded, log_failed,
                   restarts, ops>>

\* BaseHybrid._safe_handle_wrapper around a hybrid plugin's handle().
hybrid_safe_handle_wrapper(c, outcome, net) ==
    IF ~_is_plugin_active(store, c)
    THEN /\ lastOp' = Op("handle", get_job_id(c), "skipped", "none", "none")
         /\ UNCHANGED <<meta, fires>>
    ELSE /\ TotalFires < MaxFires
         /\ meta' = [meta EXCEPT ![c] =
                        IF outcome = "ok" THEN log_execution(@, now)
                        ELSE handle_error(@, "handling incoming message",
                                          now)]
         /\ fires' = Count(fires, get_job_id(c), outcome)
         /\ lastOp' = Op("handle", get_job_id(c), outcome,
                         IF outcome = "raise" /\ net # "down"
                         THEN "error_notice" ELSE "none", "none")

HybridCommand(c, outcome, net) ==
    /\ Inject(<<net>>)
    /\ polling
    /\ pc = "running"
    /\ _get_plugin_type(c) = "hybrid"
    /\ handlers[c] > 0
    /\ hybrid_safe_handle_wrapper(c, outcome, net)
    /\ UNCHANGED <<store, jobs, registry, handlers, now, pc, running,
                   polling, all_jobs, loaded, log_failed, restarts, ops>>

(* ------------- the coordinator's operations while running ------------- *)

Frame ==
    /\ ops < MaxOps
    /\ ops' = ops + 1
    /\ UNCHANGED <<meta, now, pc, running, polling, all_jobs, loaded,
                   log_failed, fires, restarts>>

\* An outgoing plugin's register_job().
RegisterJob(c, io) ==
    /\ Inject(<<io>>)
    /\ pc = "running"
    /\ _get_plugin_type(c) = "outgoing"
    /\ LET r == register_job(Live, running, c, io, now)
       IN  /\ SetLive(r.S)
           /\ lastOp' = Op("register_job", get_job_id(c), BoolStr(r.ret),
                           "none", io)
    /\ Frame

\* A hybrid plugin's register().
HybridRegister(c, io) ==
    /\ Inject(<<io>>)
    /\ pc = "running"
    /\ _get_plugin_type(c) = "hybrid"
    /\ handlers[c] < MaxHandlers
    /\ LET r == hybrid_register(Live, running, c, io, now)
       IN  /\ SetLive(r.S)
           /\ lastOp' = Op("register", get_job_id(c), BoolStr(r.ret), "none", io)
    /\ Frame

\* An incoming plugin's register_handler().
RegisterHandler(c, save_to_storage, io) ==
    /\ Inject(<<io>>)
    /\ pc = "running"
    /\ _get_plugin_type(c) = "incoming"
    /\ handlers[c] < MaxHandlers
    /\ LET r == register_handler(Live, c, save_to_storage, io, now)
       IN  /\ SetLive(r.S)
           /\ lastOp' = Op("register_handler", get_job_id(c),
                           BoolStr(r.ret), "none", IF save_to_storage THEN io ELSE "none")
    /\ Frame

UnregisterHandler(c, io) ==
    /\ Inject(<<io>>)
    /\ pc = "running"
    /\ _get_plugin_type(c) = "incoming"
    /\ LET r == unregister_handler(Live, c, io)
       IN  /\ SetLive(r.S)
           /\ lastOp' = Op("unregister_handler", get_job_id(c),
                           BoolStr(r.ret), "none", io)
    /\ Frame

RemoveJob(job_id, io) ==
    /\ Inject(<<io>>)
    /\ pc = "running"
    /\ LET r == remove_job(Live, job_id, io)
       IN  /\ SetLive(r.S)
           /\ lastOp' = Op("remove_job", job_id, BoolStr(r.ret), "none", io)
    /\ Frame

\* The trigger specifications reschedule_job is called with.
NewSchedules ==
    {[trigger |-> "interval", minutes |-> 10], [trigger |-> "none"]}

RescheduleJob(job_id, schedule) ==
    /\ pc = "running"
    /\ UNCHANGED faults
    /\ LET r == reschedule_job(Live, job_id, schedule)
       IN  /\ SetLive(r.S)
           /\ lastOp' = Op("reschedule_job", job_id, BoolStr(r.ret), "none", "none")
    /\ Frame

(* ----------------------- shutdown, restart, time ---------------------- *)

\* finally: updater.stop(), application.stop(), application.shutdown()
StopPolling ==
    /\ pc = "running"
    /\ polling' = FALSE
    /\ pc' = "stop_scheduler"
    /\ lastOp' = Op("application.shutdown", "None", "None", "none", "none")
    /\ UNCHANGED <<store, jobs, registry, handlers, meta, now, running,
                   all_jobs, loaded, log_failed, fires, restarts, ops, faults>>

\* scheduler.shutdown()
StopScheduler ==
    /\ pc = "stop_scheduler"
    /\ running' = FALSE
    /\ pc' = "stopped"
    /\ lastOp' = Op("scheduler.shutdown", "None", "None", "none", "none")
    /\ UNCHANGED <<store, jobs, registry, handlers, meta, now, polling,
                   all_jobs, loaded, log_failed, fires, restarts, ops, faults>>

\* The process is started again over the same storage directory.
Restart ==
    /\ pc = "stopped"
    /\ restarts < MaxRestarts
    /\ restarts' = restarts + 1
    /\ FreshProcess
    /\ lastOp' = Op("construct", "None", "None", "none", "none")
    /\ UNCHANGED <<store, now, fires, ops, faults>>

\* Time passes.  Nothing reads the clock between two reads of main()'s
\* startup, so a tick during startup is a tick before it.
Tick ==
    /\ pc \in {"running", "stopped"}
    /\ now < MaxNow
    /\ now' = now + 1
    /\ UNCHANGED <<store, jobs, registry, handlers, meta, pc, running,
                   polling, all_jobs, loaded, log_failed, fires, restarts,
                   ops, faults, lastOp>>

Next ==
    \/ LoadAll
    \/ \E job_data \in all_jobs : RestoreOne(job_data)
    \/ \E io1, io2 \in SaveOutcomes : InitDefaults(io1, io2)
    \/ SkipDefaults
    \/ StartScheduler
    \/ StartPolling
    \/ \E j \in JobIds, outcome \in BodyOutcomes : Fire(j, outcome)
    \/ \E chat \in Chats, args \in Args, io \in SaveOutcomes,
          net \in NetOutcomes : PluginsCommand(chat, args, io, net)
    \/ \E c \in Classes, outcome \in BodyOutcomes, net \in NetOutcomes :
          HybridCommand(c, outcome, net)
    \/ \E c \in Classes, io \in SaveOutcomes : RegisterJob(c, io)
    \/ \E c \in Classes, io \in SaveOutcomes : HybridRegister(c, io)
    \/ \E c \in Classes, save_to_storage \in BOOLEAN, io \in SaveOutcomes :
          RegisterHandler(c, save_to_storage, io)
    \/ \E c \in Classes, io \in DeleteOutcomes : UnregisterHandler(c, io)
    \/ \E job_id \in JobArgs, io \in DeleteOutcomes : RemoveJob(job_id, io)
    \/ \E job_id \in JobArgs, schedule \in NewSchedules :
          RescheduleJob(job_id, schedule)
    \/ StopPolling
    \/ StopScheduler
    \/ Restart

\* No operation compares or branches on a timestamp, so the behaviours in
\* which the clock stands still stand for all of them wherever no timestamp
\* is read; NextClock lets the clock advance as well.
Spec == Init /\ [][Next]_vars

NextClock == Next \/ Tick

SpecClock == Init /\ [][NextClock]_vars

(* --------------------- JobStorage called on its own ------------------- *)

\* The job_ids the calls are made with.
StoreIds == {"TestPlugin_job", "PluginManagerCommand_handler"}

\* The record a plugin's registration builds for job_id, with the schedule
\* and the active flag given.
NewRecord(job_id, schedule, active) ==
    LET c == ClassOf(job_id)
    IN  create_job_data(job_id, _get_plugin_type(c), get_plugin_name(c), c,
                        schedule, get_description(c), active, 0)

\* A record as load_job returned it from an earlier save, which
\* _enable_plugin and _disable_plugin hand back to save_job.
Resaved(job_data) == update(job_data, [saved_at |-> 0, version |-> "1.0"])

\* Valid records: a new one; a disabled one read from the store before; one
\* whose schedule gives run_date as a datetime object.
ValidRecords ==
    UNION {{NewRecord(j, [trigger |-> "interval", minutes |-> 5], TRUE),
            Resaved(NewRecord(j, [trigger |-> "interval", minutes |-> 5],
                              FALSE)),
            NewRecord(j, [trigger |-> "date", run_date |-> PyDatetime],
                      TRUE)} : j \in StoreIds}

\* Records _validate_job_data refuses: one required field missing, a
\* plugin_type outside valid_types, a schedule that is an empty list (not
\* a dict), a schedule dict without 'trigger'.
InvalidRecords ==
    LET r == NewRecord("TestPlugin_job",
                       [trigger |-> "interval", minutes |-> 5], TRUE)
    IN  {pop(r, f) : f \in required_fields}
        \cup {[r EXCEPT !.plugin_type = "plugin"],
              [r EXCEPT !.schedule = <<>>],
              [r EXCEPT !.schedule = [minutes |-> 5]]}

\* What a file of the storage directory can hold when the process finds it:
\* a record saved before, a file cut short by a failed write, a file
\* edited by hand into a record that does not validate.
FoundFiles ==
    [StoreIds ->
        {"absent", "valid", "invalid", "corrupt"}]

\* The schedule registration stores for job_id: {'trigger': 'none'} for a
\* handler, get_schedule() for a sender or a hybrid.
StoredSchedule(job_id) ==
    IF _get_plugin_type(ClassOf(job_id)) = "incoming"
    THEN [trigger |-> "none"]
    ELSE get_schedule(ClassOf(job_id))

\* The hand-edited record is a disabled one whose plugin_type was mistyped.
FoundStore(kind) ==
    [j \in {i \in DOMAIN kind : kind[i] # "absent"} |->
        CASE kind[j] = "valid" ->
               Resaved(NewRecord(j, StoredSchedule(j), TRUE))
          [] kind[j] = "invalid" ->
               [Resaved(NewRecord(j, StoredSchedule(j), FALSE))
                  EXCEPT !.plugin_type = "plugin"]
          [] OTHER -> Corrupt]

\* job_data.get('job_id', 'unknown')
IdOf(job_data) ==
    IF "job_id" \in DOMAIN job_data THEN job_data.job_id ELSE "unknown"

\* The call just made: its arguments, what it returned (ok: the bool,
\* rec: the record or None, all: the list) and the call before it.
StoreOp(op, id, arg, io, ok, rec, all) ==
    [op |-> op, id |-> id, arg |-> arg, io |-> io, ok |-> ok, rec |-> rec,
     all |-> all,
     prev |-> [op |-> lastOp.op, id |-> lastOp.id, ok |-> lastOp.ok]]

InitStore ==
    /\ \E kind \in FoundFiles : store = FoundStore(kind)
    /\ now \in 0..MaxNow
    /\ jobs = EmptyMap
    /\ registry = EmptyMap
    /\ handlers = [c \in Classes |-> 0]
    /\ meta = [c \in Classes |-> _get_default_metadata]
    /\ pc = "load"
    /\ running = FALSE
    /\ polling = FALSE
    /\ all_jobs = {}
    /\ loaded = [outgoing |-> 0, incoming |-> 0, inactive |-> 0]
    /\ log_failed = {}
    /\ fires = [j \in JobIds |-> [ok |-> 0, bad |-> 0]]
    /\ restarts = 0
    /\ ops = 0
    /\ faults = 0
    /\ lastOp = [op |-> "construct", id |-> "None", arg |-> NoneRec,
                 io |-> "none", ok |-> TRUE, rec |-> NoneRec, all |-> {},
                 prev |-> [op |-> "none", id |-> "None", ok |-> TRUE]]

StoreFrame ==
    UNCHANGED <<jobs, registry, handlers, meta, now, pc, running, polling,
                all_jobs, loaded, log_failed, fires, restarts, ops, faults>>

SaveJob(job_data, io) ==
    /\ LET r == save_job(store, job_data, io, now)
       IN  /\ store' = r.store
           /\ lastOp' = StoreOp("save_job", IdOf(job_data), job_data, io,
                                r.ret, NoneRec, {})
    /\ StoreFrame

LoadJob(job_id) ==
    /\ lastOp' = StoreOp("load_job", job_id, NoneRec, "none",
                         load_job(store, job_id) # NoneRec,
                         load_job(store, job_id), {})
    /\ store' = store
    /\ StoreFrame

LoadAllJobs ==
    /\ lastOp' = StoreOp("load_all_jobs", "None", NoneRec, "none", TRUE,
                         NoneRec, load_all_jobs(store))
    /\ store' = store
    /\ StoreFrame

DeleteJob(job_id, io) ==
    /\ LET r == delete_job(store, job_id, io)
       IN  /\ store' = r.store
           /\ lastOp' = StoreOp("delete_job", job_id, NoneRec, io, r.ret,
                                NoneRec, {})
    /\ StoreFrame

JobExists(job_id) ==
    /\ lastOp' = StoreOp("job_exists", job_id, NoneRec, "none",
                         job_exists(store, job_id), NoneRec, {})
    /\ store' = store
    /\ StoreFrame

NextStore ==
    \/ \E job_data \in ValidRecords \cup InvalidRecords,
          io \in SaveOutcomes : SaveJob(job_data, io)
    \/ \E job_id \in StoreIds : LoadJob(job_id)
    \/ LoadAllJobs
    \/ \E job_id \in StoreIds, io \in DeleteOutcomes : DeleteJob(job_id, io)
    \/ \E job_id \in StoreIds : JobExists(job_id)

SpecStore == InitStore /\ [][NextStore]_vars

(* --------- the wrappers of a running bot over any found store --------- *)

\* The bot runs with every plugin registered (TestPlugin's and
\* ReminderPlugin's jobs scheduled, the manager's and ReminderPlugin's
\* handlers added) while the files of the storage directory are whatever
\* an operator or a failed write left there.
InitGate ==
    /\ \E kind \in [JobIds -> {"absent", "valid", "invalid", "corrupt"}] :
          store = FoundStore(kind)
    /\ jobs = [j \in {get_job_id(c) : c \in {d \in Classes :
                         _get_plugin_type(d) # "incoming"}} |->
                 [func |-> ClassOf(j), schedule |-> get_schedule(ClassOf(j)),
                  paused |-> FALSE]]
    /\ registry = [j \in JobIds |-> ClassOf(j)]
    /\ handlers = [c \in Classes |->
                     IF _get_plugin_type(c) = "outgoing" THEN 0 ELSE 1]
    /\ meta = [c \in Classes |-> _get_default_metadata]
    /\ now = 0
    /\ pc = "running"
    /\ running = TRUE
    /\ polling = TRUE
    /\ all_jobs = {}
    /\ loaded = [outgoing |-> 0, incoming |-> 0, inactive |-> 0]
    /\ log_failed = {}
    /\ fires = [j \in JobIds |-> [ok |-> 0, bad |-> 0]]
    /\ restarts = 0
    /\ ops = 0
    /\ faults = 0
    /\ lastOp = Op("start_polling", "None", "None", "none", "none")

NextGate ==
    \/ \E j \in JobIds, outcome \in BodyOutcomes : Fire(j, outcome)
    \/ \E chat \in Chats, args \in Args, io \in SaveOutcomes,
          net \in NetOutcomes : PluginsCommand(chat, args, io, net)
    \/ \E c \in Classes, outcome \in BodyOutcomes, net \in NetOutcomes :
          HybridCommand(c, outcome, net)

SpecGate == InitGate /\ [][NextGate]_vars

(* ===================== properties of the runtime ====================== *)

\* The record stored under j says metadata.active == false.
StoredInactive(st, j) ==
    /\ j \in DOMAIN st
    /\ "metadata" \in DOMAIN st[j]
    /\ "active" \in DOMAIN st[j].metadata
    /\ st[j].metadata.active = FALSE

\* The record stored under j is readable.
HasRecord(st, j) == j \in DOMAIN st /\ "metadata" \in DOMAIN st[j]

\* The job_ids registered with the scheduler or through a handler added to
\* the Telegram application.
Registered(J, H) ==
    {j \in JobIds : j \in DOMAIN J \/ H[ClassOf(j)] > 0}

\* A coordinator operation named in ops has just returned ret for its job.
Returned(names, ret) == lastOp.op \in names /\ lastOp.ret = ret

(* ------------------------------- C1 ----------------------------------- *)

\* C1 (active gate): in no step does a body (send or handle) run for a job
\* whose stored record says metadata.active == false when the step starts,
\* whatever the scheduler and the application still hold for that job.
C1_ActiveGate ==
    [][\A j \in JobIds :
          StoredInactive(store, j) => fires'[j] = fires[j]]_vars

\* The scheduler fired a job it holds unpaused, the record said inactive,
\* and the wrapper returned without running send().
C1_GateSkipsLiveJob ==
    /\ lastOp.op = "send"
    /\ lastOp.ret = "skipped"
    /\ lastOp.id \in DOMAIN jobs
    /\ ~jobs[lastOp.id].paused
    /\ StoredInactive(store, lastOp.id)

(* ------------------------------- C2 ----------------------------------- *)

\* C2 (register rollback): a registration whose job the scheduler accepts
\* (the id is not scheduled yet) and whose write to the store fails returns
\* False and leaves neither the job in the scheduler nor an entry in the
\* registry.
C2_RegisterRollback ==
    [][(/\ lastOp'.op \in {"register_job", "register"}
        /\ ops' = ops + 1
        /\ lastOp'.io # "ok"
        /\ lastOp'.id \notin DOMAIN jobs)
       => (/\ lastOp'.ret = "False"
           /\ lastOp'.id \notin DOMAIN jobs'
           /\ lastOp'.id \notin DOMAIN registry')]_vars

(* ------------------------------- C3 ----------------------------------- *)

\* C3 (store/live consistency at operation end): after register, reschedule
\* or restore returned success, a job_id it acted on that is scheduled or in
\* the registry has a stored record; after remove returned success the
\* job_id is in none of store, scheduler and registry.
C3_StoreLiveConsistent ==
    /\ (\/ Returned({"register_job", "register", "register_handler",
                     "reschedule_job"}, "True")
        \/ (lastOp.op = "restore" /\ lastOp.ret \in {"outgoing", "incoming"}))
       => ((lastOp.id \in DOMAIN jobs \/ lastOp.id \in DOMAIN registry)
             => HasRecord(store, lastOp.id))
    /\ Returned({"remove_job", "unregister_handler"}, "True")
       => (/\ lastOp.id \notin DOMAIN store
           /\ lastOp.id \notin DOMAIN jobs
           /\ lastOp.id \notin DOMAIN registry)

(* ------------------------------- C4 ----------------------------------- *)

\* C4 (unregister is best-effort): after remove_job(job_id), with the file
\* removal itself working, the record is gone from the store and the entry
\* from the registry, whether or not the scheduler knew the job_id.
C4_RemoveBestEffort ==
    (lastOp.op = "remove_job" /\ lastOp.io = "ok")
    => (/\ lastOp.id \notin DOMAIN store
        /\ lastOp.id \notin DOMAIN registry
        /\ lastOp.id \notin DOMAIN jobs)

(* ------------------------------- C5 ----------------------------------- *)

\* C5 (reschedule patches the store): after reschedule_job returned True
\* for a job with a stored record, the record's schedule is the schedule
\* the scheduler now holds for the job.
C5_ReschedulePatchesStore ==
    (Returned({"reschedule_job"}, "True") /\ HasRecord(store, lastOp.id))
    => store[lastOp.id].schedule = jobs[lastOp.id].schedule

(* ------------------------------- C6 ----------------------------------- *)

\* C6 (inactive records are not registered by a restart): in the step that
\* completes startup (the restore loop has read every record and the
\* bootstrap decision is taken; nothing has written the store since the
\* process started), a job whose record says inactive is not registered
\* afterwards, and a job whose record says active and resolves to a plugin
\* is.
C6_StartupRespectsActive ==
    [][(pc = "restore" /\ pc' = "start_scheduler")
       => \A j \in JobIds :
            /\ StoredInactive(store, j)
               => j \notin Registered(jobs', handlers')
            /\ (/\ HasRecord(store, j)
                /\ get_active(store[j])
                /\ plugin_loader(store[j]) # NoInstance)
               => j \in Registered(jobs', handlers')]_vars

(* ---------------------------- C7 and C8 ------------------------------- *)

\* The restore loop has gone through every record it read.  Nothing writes
\* the store between load_all_jobs() and this point.
RestoreDone == pc = "restore" /\ all_jobs = {}

ActiveRecords == {job_data \in load_all_jobs(store) : get_active(job_data)}

Unresolvable ==
    {job_data \in ActiveRecords : plugin_loader(job_data) = NoInstance}

IdsOf(records) == {job_data.job_id : job_data \in records}

LiveCount ==
    LET RECURSIVE Sum(_)
        Sum(C) == IF C = {} THEN 0
                  ELSE LET c == CHOOSE x \in C : TRUE
                       IN  handlers[c] + Sum(C \ {c})
    IN  Cardinality(DOMAIN jobs) + Sum(Classes)

\* C7 (restore completeness): when every active record resolves to a
\* plugin, the restore loop ends with as many live registrations (jobs in
\* the scheduler and handlers in the application) as there are active
\* records, and the registry holds exactly their job_ids.
C7_RestoreComplete ==
    (RestoreDone /\ Unresolvable = {})
    => (/\ LiveCount = Cardinality(ActiveRecords)
        /\ Registered(jobs, handlers) = IdsOf(ActiveRecords)
        /\ DOMAIN registry = IdsOf(ActiveRecords)
        /\ \A j \in DOMAIN registry : get_job_id(registry[j]) = j)

\* A restart found two active records, both resolvable, and restored them.
C7_TwoRestored ==
    /\ RestoreDone
    /\ restarts > 0
    /\ Unresolvable = {}
    /\ Cardinality(ActiveRecords) = 2
    /\ loaded.outgoing = 1 /\ loaded.incoming = 1

C9_StoredCountersCount ==
    \A j \in JobIds :
        HasRecord(store, j)
        => (/\ store[j].metadata.execution_count = fires[j].ok
            /\ store[j].metadata.error_count = fires[j].bad)

\* C10 (counters never decrease): no step that leaves a job's record in the
\* store lowers the record's execution_count or error_count.
C10_CountersNeverDecrease ==
    [][\A j \in JobIds :
          (HasRecord(store, j) /\ HasRecord(store', j))
          => (/\ store'[j].metadata.execution_count
                    >= store[j].metadata.execution_count
              /\ store'[j].metadata.error_count
                    >= store[j].metadata.error_count)]_vars

\* A registration wrote anew the record of a job whose body had run before.
C10_RecordRewrittenAfterRuns ==
    /\ lastOp.op \in {"register_job", "register", "defaults"}
    /\ lastOp.ret = "True"
    /\ \E j \in JobIds :
          /\ HasRecord(store, j)
          /\ fires[j].ok + fires[j].bad > 0
          /\ \/ lastOp.id = j
             \/ /\ lastOp.op = "defaults"
                /\ j \in {get_job_id("TestPlugin"),
                          get_job_id("PluginManagerCommand")}

(* ------------------------------- C11 ---------------------------------- *)

\* C11 (a skipped invocation changes nothing): a wrapper entered while the
\* job's stored record says inactive returns as skipped, not as raised, and
\* the step changes neither any instance's counters, last_execution and
\* last error nor any stored record.
C11_SkipChangesNothing ==
    [][(lastOp'.op \in {"send", "handle"}
        /\ StoredInactive(store, lastOp'.id))
       => (/\ lastOp'.ret = "skipped"
           /\ meta' = meta
           /\ store' = store
           /\ fires' = fires)]_vars

\* A command reached the handler of a disabled plugin that had run before:
\* it was skipped, and the instance still shows its one execution.
C11_SkippedAfterRun ==
    /\ lastOp.op = "handle"
    /\ lastOp.ret = "skipped"
    /\ StoredInactive(store, lastOp.id)
    /\ meta[ClassOf(lastOp.id)].execution_count = 1
    /\ fires[lastOp.id].ok = 1

(* ------------------------------- C12 ---------------------------------- *)

\* The step is a body of job j ending in an exception.
BodyRaised(j) ==
    /\ lastOp'.op \in {"send", "handle"}
    /\ lastOp'.id = j
    /\ lastOp'.ret = "raise"
    /\ fires'[j].bad = fires[j].bad + 1

\* C12 (error containment): a step in which the body of job j raises
\* records the failure on j's instance (error_count one higher, last error
\* set, unhealthy) and on no other instance; main() stays where it is with
\* scheduler and polling as they were; no job, handler or registry entry is
\* added or dropped and no schedule changes.  A send() that raises changes
\* nothing else at all; a /plugins command whose replies raise has written
\* at most the one record it was sent to enable or disable.
C12_ErrorContained ==
    [][\A j \in JobIds :
          BodyRaised(j)
          => (/\ meta'[ClassOf(j)].error_count
                    = meta[ClassOf(j)].error_count + 1
              /\ meta'[ClassOf(j)].last_error # NoError
              /\ ~meta'[ClassOf(j)].is_healthy
              /\ \A c \in Classes \ {ClassOf(j)} : meta'[c] = meta[c]
              /\ pc' = pc /\ running' = running /\ polling' = polling
              /\ registry' = registry
              /\ handlers' = handlers
              /\ DOMAIN jobs' = DOMAIN jobs
              /\ \A k \in DOMAIN jobs :
                    /\ jobs'[k].schedule = jobs[k].schedule
                    /\ jobs'[k].func = jobs[k].func
              /\ lastOp'.op = "send" => (store' = store /\ jobs' = jobs)
              /\ Cardinality({k \in DOMAIN store \cup DOMAIN store' :
                    \/ k \notin DOMAIN store
                    \/ k \notin DOMAIN store'
                    \/ store'[k] # store[k]}) <= 1)]_vars

\* After the body of one job raised, the scheduler fired another job and
\* its body ran.
C12_DispatchedAfterRaise ==
    /\ lastOp.op = "send"
    /\ lastOp.ret = "ok"
    /\ \E k \in JobIds \ {lastOp.id} :
          /\ fires[k].bad = 1
          /\ meta[ClassOf(k)].error_count = 1
    /\ pc = "running"

(* ------------------------------- C13 ---------------------------------- *)

\* The operation recorded in op is the admin's "/plugins <action> <j>".
AdminCommand(op, action, j) ==
    /\ op.op = "handle"
    /\ op.ev.chat = admin_chat_id
    /\ op.ev.args = <<action, j>>

\* C13 (enable/disable round-trip): when the admin's disable of a job has
\* made its record inactive and the admin's enable of the same job_id
\* follows, the record says active again and, for an outgoing job the
\* scheduler holds, the job is not paused.
C13_DisableEnableRoundTrip ==
    [][\A j \in JobIds :
          (/\ AdminCommand(lastOp, "disable", j)
           /\ StoredInactive(store, j)
           /\ AdminCommand(lastOp', "enable", j)
           /\ fires' # fires \/ lastOp'.ret = "skipped")
          => (/\ HasRecord(store', j)
              /\ get_active(store'[j])
              /\ (store'[j].plugin_type = "outgoing" /\ j \in DOMAIN jobs')
                 => ~jobs'[j].paused)]_vars

(* ------------------------------- C14 ---------------------------------- *)

\* The body of the admin's "/plugins <action> <j>" ran in this step.
AdminCommandRan(action, j) ==
    /\ AdminCommand(lastOp', action, j)
    /\ fires' # fires

\* C14 (disable pauses, never unregisters): for a job the scheduler holds
\* whose record is of kind outgoing or hybrid, the admin's disable of an
\* active record leaves the job in the scheduler, paused, and the admin's
\* enable of an inactive record leaves it in the scheduler, not paused.
C14_DisablePausesTimers ==
    [][\A j \in JobIds :
          (/\ j \in DOMAIN jobs
           /\ HasRecord(store, j)
           /\ store[j].plugin_type \in {"outgoing", "hybrid"})
          => (/\ (AdminCommandRan("disable", j) /\ get_active(store[j]))
                 => (j \in DOMAIN jobs' /\ jobs'[j].paused)
              /\ (AdminCommandRan("enable", j) /\ ~get_active(store[j]))
                 => (j \in DOMAIN jobs' /\ ~jobs'[j].paused))]_vars

(* ------------------------------- C15 ---------------------------------- *)

\* C15 (handler registration rolls back): a register_handler called with
\* save_to_storage whose write to the store fails returns False and leaves
\* no registry entry for the job_id; one that returns True has its record
\* stored.
C15_HandlerRegisterRollback ==
    /\ (lastOp.op = "register_handler" /\ lastOp.io \in {"open_error",
                                                        "write_error"})
       => (lastOp.ret = "False" /\ lastOp.id \notin DOMAIN registry)
    /\ (lastOp.op = "register_handler" /\ lastOp.io = "ok"
        /\ lastOp.ret = "True")
       => HasRecord(store, lastOp.id)

(* ------------------------------- C16 ---------------------------------- *)

\* C16 (admin commands always get a reply): when the handler of a /plugins
\* command from the admin chat has returned, a reply has been sent, unless
\* the sends themselves raised (Telegram refused every message).  The
\* handler leaves nothing pending when it returns, so a reply not sent by
\* then is never sent.
C16_AdminAlwaysReplied ==
    (lastOp.op = "handle" /\ lastOp.ev.chat = admin_chat_id)
    => (lastOp.reply # "none" \/ lastOp.ret = "raise")

(* ------------------------------- C17 ---------------------------------- *)

\* C17 (unauthorized commands change nothing): a step that handles a
\* /plugins command from a chat other than the admin chat sends the
\* rejection and leaves every stored record, the registry, the scheduler's
\* jobs with their pause state, and every instance's execution_count and
\* error_count as they were.
C17_UnauthorizedChangesNothing ==
    [][(/\ lastOp'.op = "handle"
        /\ lastOp'.ev.chat \in Chats \ {admin_chat_id})
       => (/\ lastOp'.reply = "unauthorized"
           /\ store' = store
           /\ registry' = registry
           /\ jobs' = jobs
           /\ \A c \in Classes :
                /\ meta'[c].execution_count = meta[c].execution_count
                /\ meta'[c].error_count = meta[c].error_count)]_vars

(* ------------------------------- C18 ---------------------------------- *)

\* The restore loop is through, it restored nothing, and not because there
\* was nothing to restore: a record failed to load or a file is unreadable.
TotalRestoreFailure ==
    /\ RestoreDone
    /\ loaded.outgoing = 0 /\ loaded.incoming = 0
    /\ \/ log_failed # {}
       \/ \E f \in DOMAIN store : store[f] = Corrupt

\* C18 (total restore failure is fatal): after a restore that failed
\* totally main() does not go on to start the scheduler.
C18_TotalRestoreFailureFatal ==
    [][TotalRestoreFailure => pc' # "start_scheduler"]_vars

\* C19: in every run of the process the restore step runs once, and it is
\* over before the scheduler is started and before polling starts: the
\* records are read only as the first step of a fresh process, the loop is
\* entered only from that read and never re-entered, the scheduler starts
\* only after the loop has consumed every record, polling starts only after
\* the scheduler, and while the read or the loop is pending neither engine
\* runs, no job fires and no command is dispatched.
C19_RestoreOnceBeforeDispatch ==
    [][ /\ (pc \in {"load", "restore"}) =>
              /\ ~running /\ ~polling
              /\ fires' = fires
              /\ lastOp'.op \notin {"send", "handle"}
        /\ (pc' = "load" /\ pc # "load") =>
              (pc = "stopped" /\ restarts' = restarts + 1)
        /\ (pc' = "restore" /\ pc # "restore") => pc = "load"
        /\ (pc # "restore" /\ pc' \notin {"load", "restore"}) =>
              pc # "load"
        /\ (pc = "restore" /\ pc' # "restore") =>
              (all_jobs = {} /\ pc' = "start_scheduler")
        /\ (running' /\ ~running) => pc = "start_scheduler"
        /\ (polling' /\ ~polling) => (pc = "start_polling" /\ running)
      ]_vars

\* The second process has restored a record and then started the scheduler.
C19_RestoredThenStarted ==
    /\ restarts = 1
    /\ pc = "start_polling"
    /\ running
    /\ loaded.outgoing + loaded.incoming > 0

\* C20: on shutdown the scheduler is released first and the Telegram
\* application after it: the step that stops polling finds the scheduler
\* already shut down.
C20_SchedulerReleasedFirst ==
    [][(polling /\ ~polling') => ~running]_vars

(* ------------------------------- C21 ---------------------------------- *)

\* got has every field of job_data with job_data's value, saved_at aside,
\* and beside them only the two fields save_job stamps.
EqualExceptSavedAt(got, job_data) ==
    /\ got # NoneRec
    /\ DOMAIN got = DOMAIN job_data \cup {"saved_at", "version"}
    /\ \A k \in DOMAIN job_data \ {"saved_at"} : got[k] = job_data[k]

Malformed(job_data) ==
    \/ \E f \in {"job_id", "plugin_type", "plugin_name", "plugin_class",
                 "schedule"} : f \notin DOMAIN job_data
    \/ job_data.plugin_type \notin {"outgoing", "incoming", "hybrid"}
    \/ "trigger" \notin DOMAIN job_data.schedule

\* C22: validation on create.  save_job of a malformed record returns False
\* and leaves every file as it was: nothing is written and the record stored
\* under the same job_id is kept.
C22_InvalidNeverWritten ==
    [][(lastOp'.op = "save_job" /\ Malformed(lastOp'.arg))
       => (~lastOp'.ok /\ store' = store)]_vars

\* A record with an unknown plugin_type was refused although the write
\* itself would have gone through, and the valid record stored under its
\* job_id is still there.
C22_RefusedOverStoredRecord ==
    /\ lastOp.op = "save_job"
    /\ lastOp.io = "ok"
    /\ ~lastOp.ok
    /\ "plugin_type" \in DOMAIN lastOp.arg
    /\ lastOp.arg.plugin_type = "plugin"
    /\ lastOp.id \in DOMAIN store
    /\ load_job(store, lastOp.id) # NoneRec

(* ------------------------------- C23 ---------------------------------- *)

\* The file stored under j parses and is a well-formed record.
StoredValid(st, j) ==
    /\ j \in DOMAIN st
    /\ st[j] # Corrupt
    /\ ~Malformed(st[j])

\* C23: validation on read.  load_job returns None for an entry that does
\* not parse or does not validate and the stored content itself, unaltered,
\* for any other; load_all_jobs returns exactly the entries that parse and
\* validate, and returns whatever else the directory holds.
C23_ReadValidates ==
    [][/\ lastOp'.op = "load_job" =>
            lastOp'.rec = (IF StoredValid(store, lastOp'.id)
                           THEN store[lastOp'.id] ELSE NoneRec)
       /\ lastOp'.op = "load_all_jobs" =>
            lastOp'.all = {store[j] : j \in {i \in DOMAIN store :
                                               StoredValid(store, i)}}
      ]_vars

\* load_all_jobs returned the one valid record of a directory that also
\* holds a file that does not parse or does not validate.
C23_ListedBesideInvalid ==
    /\ lastOp.op = "load_all_jobs"
    /\ Cardinality(lastOp.all) = 1
    /\ Cardinality(DOMAIN store) = 2
    /\ \E j \in DOMAIN store : store[j] = Corrupt \/ Malformed(store[j])

(* ------------------------------- C24 ---------------------------------- *)

\* C24: idempotent delete.  delete_job(id) for an id without a file returns
\* False and changes nothing; once delete_job(id) has returned True the
\* file is gone (job_exists(id) is False), so a second delete_job(id) made
\* right after it returns False, and job_exists(id) is False after that
\* one as well.
C24_IdempotentDelete ==
    [][lastOp'.op = "delete_job" =>
         /\ ~job_exists(store, lastOp'.id) =>
                (~lastOp'.ok /\ store' = store)
         /\ lastOp'.ok => ~job_exists(store', lastOp'.id)
         /\ (lastOp.op = "delete_job" /\ lastOp.ok
             /\ lastOp.id = lastOp'.id) =>
                (~lastOp'.ok /\ ~job_exists(store', lastOp'.id))
      ]_vars

\* The second of two delete_job calls on the same id, the first of which
\* removed the file.
C24_DeletedTwice ==
    /\ lastOp.op = "delete_job"
    /\ ~lastOp.ok
    /\ lastOp.io = "ok"
    /\ lastOp.prev.op = "delete_job"
    /\ lastOp.prev.ok
    /\ lastOp.prev.id = lastOp.id

(* ------------------------------- C25 ---------------------------------- *)

\* C25: create replaces, never duplicates.  After the calls made so far no
\* two records of load_all_jobs carry the same job_id, every record is
\* listed under its own job_id, and a save_job that returned True leaves
\* under the job_id the record of that call, whatever an earlier save_job
\* had stored there.
C25_SaveReplaces ==
    [][/\ \A r1, r2 \in load_all_jobs(store') :
            r1.job_id = r2.job_id => r1 = r2
       /\ \A j \in DOMAIN store' :
            load_job(store', j) # NoneRec => load_job(store', j).job_id = j
       /\ (lastOp'.op = "save_job" /\ lastOp'.ok) =>
            /\ load_job(store', lastOp'.id) =
                  update(lastOp'.arg, [saved_at |-> now, version |-> "1.0"])
            /\ DOMAIN store' = DOMAIN store \cup {lastOp'.id}
      ]_vars

\* The second of two successful save_job calls in a row on one job_id: it
\* stored a disabled record, and the listing holds that one record.
C25_SavedTwice ==
    /\ lastOp.op = "save_job"
    /\ lastOp.ok
    /\ lastOp.prev.op = "save_job"
    /\ lastOp.prev.ok
    /\ lastOp.prev.id = lastOp.id
    /\ ~lastOp.arg.metadata.active
    /\ load_all_jobs(store) = {store[lastOp.id]}
    /\ ~store[lastOp.id].metadata.active

(* ------------------------------- C26 ---------------------------------- *)

\* C26: record writes are atomic per job_id.  Whatever a step does and
\* however a write ends, each file is afterwards either what it was before
\* the step or a complete record that parses and validates; never a
\* half-written one.
C26_WritesAtomic ==
    [][\A j \in DOMAIN store' :
          \/ (j \in DOMAIN store /\ store'[j] = store[j])
          \/ (store'[j] # Corrupt /\ ~Malformed(store'[j]))]_vars

(* ------------------------------- C27 ---------------------------------- *)

\* The live side of a process that has restored nothing yet.
NothingRestored ==
    [store |-> store', jobs |-> EmptyMap, registry |-> EmptyMap,
     handlers |-> [c \in Classes |-> 0]]

\* The loop run over records in one fixed order: the live side, the three
\* counters and the job_ids logged as failed it ends with.
RestoredInFixedOrder(S0, records) ==
    LET RECURSIVE Run(_)
        Run(R) ==
            IF R = {}
            THEN [S |-> S0,
                  loaded |-> [outgoing |-> 0, incoming |-> 0, inactive |-> 0],
                  failed |-> {}]
            ELSE LET job_data == CHOOSE x \in R : TRUE
                     before == Run(R \ {job_data})
                     r == restore_one(before.S, job_data)
                 IN  [S |-> r.S,
                      loaded |->
                        [outgoing |-> before.loaded.outgoing
                            + (IF r.ret = "outgoing" THEN 1 ELSE 0),
                         incoming |-> before.loaded.incoming
                            + (IF r.ret = "incoming" THEN 1 ELSE 0),
                         inactive |-> before.loaded.inactive
                            + (IF r.ret = "inactive" THEN 1 ELSE 0)],
                      failed |-> IF r.ret = "failed"
                                 THEN before.failed \cup {job_data.job_id}
                                 ELSE before.failed]
    IN  Run(records)

\* C27: restore is order-independent.  In whatever order the loop has taken
\* the records it has gone through so far, the scheduler's jobs, the
\* registry, the handlers, the counters and the logged failures are those of
\* the loop taking the same records in one fixed order; and each record
\* ends as it would if it were the only record restored.
C27_RestoreOrderIndependent ==
    [][pc' = "restore" =>
         /\ LET fixed == RestoredInFixedOrder(NothingRestored,
                             load_all_jobs(store') \ all_jobs')
            IN  /\ jobs' = fixed.S.jobs
                /\ registry' = fixed.S.registry
                /\ handlers' = fixed.S.handlers
                /\ loaded' = fixed.loaded
                /\ log_failed' = fixed.failed
         /\ lastOp'.op = "restore" =>
              \E job_data \in all_jobs :
                 /\ job_data.job_id = lastOp'.id
                 /\ lastOp'.ret = restore_one(NothingRestored, job_data).ret
      ]_vars

\* A restart restored the manager's handler first and TestPlugin's job
\* after it, beside a record it could not restore.
C27_RestoredOutgoingLast ==
    /\ RestoreDone
    /\ restarts = 1
    /\ lastOp.op = "restore"
    /\ lastOp.id = "TestPlugin_job"
    /\ lastOp.ret = "outgoing"
    /\ loaded.incoming = 1
    /\ log_failed # {}

(* ------------------------------- C28 ---------------------------------- *)

\* C28: at most one load per job_id.  Whatever has been registered and
\* restored, no plugin has more than one handler in the Telegram
\* application.  (The scheduler's jobs and the registry are keyed by
\* job_id, so neither can hold two entries for one.)
C28_AtMostOneLoad ==
    \A c \in Classes : handlers[c] <= 1

(* ------------------------------- C29 ---------------------------------- *)

\* C29: default plugins are initialised only on the first run.  The step
\* in which main() creates and registers TestPlugin and PluginManagerCommand
\* is taken only by a process that found no valid record in the store.
C29_DefaultsOnlyOnFirstRun ==
    [][lastOp'.op = "defaults" => load_all_jobs(store) = {}]_vars

(* ------------------------------- C30 ---------------------------------- *)

\* The file stored under j parses, validates and says active == false.
ValidInactive(st, j) ==
    /\ StoredValid(st, j)
    /\ "metadata" \in DOMAIN st[j]
    /\ "active" \in DOMAIN st[j].metadata
    /\ st[j].metadata.active = FALSE

\* C30: gate default.  A wrapper of any of the three base classes skips the
\* body exactly when the file stored under the job_id is a valid record
\* with metadata.active == false; when the record is absent, does not
\* validate or does not parse, _is_plugin_active is true and the body runs.
C30_GateDefault ==
    [][lastOp'.op \in {"send", "handle"} =>
         LET j == lastOp'.id
         IN  /\ _is_plugin_active(store, ClassOf(j)) = ~ValidInactive(store, j)
             /\ (lastOp'.ret = "skipped") = ValidInactive(store, j)
             /\ ~ValidInactive(store, j) => fires'[j] # fires[j]
      ]_vars

\* A body ran for a job whose file is a disabled record that does not
\* validate.
C30_RanOverInvalidRecord ==
    /\ lastOp.op \in {"send", "handle"}
    /\ lastOp.ret # "skipped"
    /\ fires[lastOp.id].ok + fires[lastOp.id].bad > 0
    /\ StoredInactive(store, lastOp.id)
    /\ Malformed(store[lastOp.id])

(* ------------------------------- C31 ---------------------------------- *)

\* The admin sent /plugins <action> j for one of the three actions that
\* take a job_id.
AdminJobCommand(j) ==
    \E action \in {"enable", "disable", "status"} :
        AdminCommand(lastOp', action, j)

\* C31: admin command on an unknown job_id.  When the admin sends enable,
\* disable or status for a job_id under which no valid record is stored,
\* no stored file, registry entry or scheduler job changes, and, Telegram
\* and the disk working during the command, the reply is "not found".
C31_UnknownJobNotFound ==
    [][\A j \in JobArgs :
          (AdminJobCommand(j) /\ load_job(store, j) = NoneRec)
          => /\ store' = store
             /\ registry' = registry
             /\ jobs' = jobs
             /\ faults' = faults => lastOp'.reply = "not_found"]_vars

(* ------------------------------- C32 ---------------------------------- *)

\* The valid record stored under j says active (as flag).
RecordSays(st, j, flag) ==
    /\ load_job(st, j) # NoneRec
    /\ get_active(load_job(st, j)) = flag

\* C32: enable and disable are idempotent.  The admin's enable of a job
\* whose record is already active, and the admin's disable of a job whose
\* record is already inactive, leave every stored file (saved_at included)
\* and every scheduler job, its pause state included, as they were, and,
\* Telegram working during the command, reply that the plugin is already
\* enabled, or already disabled.
C32_EnableDisableIdempotent ==
    [][\A j \in JobArgs :
          /\ (AdminCommand(lastOp', "enable", j) /\ RecordSays(store, j, TRUE))
             => /\ store' = store
                /\ jobs' = jobs
                /\ faults' = faults => lastOp'.reply = "already_enabled"
          /\ (AdminCommand(lastOp', "disable", j)
              /\ RecordSays(store, j, FALSE))
             => /\ store' = store
                /\ jobs' = jobs
                /\ faults' = faults => lastOp'.reply = "already_disabled"
      ]_vars

(* ========== SchedulerManager.register_plugin_job on its own ========== *)

\* Calls of register_plugin_job and remove_job over a whole behaviour.
MaxCalls == 3

\* What get_schedule() of the registering plugin returns: TestPlugin's
\* interval, or a trigger name APScheduler does not know.
RegisterSchedules ==
    {[trigger |-> "interval", minutes |-> 5], [trigger |-> "weekly"]}

\* The running coordinator before any plugin registered.
InitRegister ==
    /\ store = EmptyMap
    /\ jobs = EmptyMap
    /\ registry = EmptyMap
    /\ handlers = [c \in Classes |-> 0]
    /\ meta = [c \in Classes |-> _get_default_metadata]
    /\ now = 0
    /\ pc = "running"
    /\ running = TRUE
    /\ polling = TRUE
    /\ all_jobs = {}
    /\ loaded = [outgoing |-> 0, incoming |-> 0, inactive |-> 0]
    /\ log_failed = {}
    /\ fires = [j \in JobIds |-> [ok |-> 0, bad |-> 0]]
    /\ restarts = 0
    /\ ops = 0
    /\ faults = 0
    /\ lastOp = Op("start_polling", "None", "None", "none", "none")

RegisterFrame ==
    /\ ops < MaxCalls
    /\ ops' = ops + 1
    /\ UNCHANGED <<meta, now, pc, running, polling, all_jobs, loaded,
                   log_failed, fires, restarts>>

\* register_plugin_job(plugin_instance, job_data), job_data as register_job
\* of a plugin of class c builds it, with the schedule its get_schedule()
\* returned.
RegisterPluginJob(c, schedule, io) ==
    /\ Inject(<<io>>)
    /\ _get_plugin_type(c) # "incoming"
    /\ LET job_data ==
               create_job_data(get_job_id(c), _get_plugin_type(c),
                               get_plugin_name(c), c, schedule,
                               get_description(c), TRUE, now)
           r == register_plugin_job(Live, running, c, job_data, io, now)
       IN  /\ SetLive(r.S)
           /\ lastOp' = OpEv("register_plugin_job", get_job_id(c),
                             BoolStr(r.ret), "none", io,
                             [chat |-> "none", args |-> <<schedule.trigger>>])
    /\ RegisterFrame

\* remove_job(job_id) between the registrations.
RemovePluginJob(job_id, io) ==
    /\ Inject(<<io>>)
    /\ LET r == remove_job(Live, job_id, io)
       IN  /\ SetLive(r.S)
           /\ lastOp' = Op("remove_job", job_id, BoolStr(r.ret), "none", io)
    /\ RegisterFrame

NextRegister ==
    \/ \E c \in Classes, schedule \in RegisterSchedules,
          io \in SaveOutcomes : RegisterPluginJob(c, schedule, io)
    \/ \E j \in JobIds, io \in DeleteOutcomes : RemovePluginJob(j, io)

SpecRegister == InitRegister /\ [][NextRegister]_vars

(* ------------------------------- C33 ---------------------------------- *)

\* The register_plugin_job call of this step, for job_id j, is one whose
\* scheduler.add_job raises: the trigger is unknown, or the running
\* scheduler already holds the id.
AddJobFails(j) ==
    /\ lastOp'.op = "register_plugin_job"
    /\ lastOp'.id = j
    /\ \/ lastOp'.ev.args[1] \notin KnownTriggers
       \/ running /\ j \in DOMAIN jobs

\* C33: a register_plugin_job call whose add_job fails, for a job_id the
\* registry did not hold before the call, returns False, leaves the registry
\* without an entry for the job_id, and writes nothing to the store.
C33_FailedAddLeavesNothing ==
    [][\A j \in JobIds :
          (AddJobFails(j) /\ j \notin DOMAIN registry)
          => /\ lastOp'.ret = "False"
             /\ j \notin DOMAIN registry'
             /\ store' = store]_vars

\* register_plugin_job returned False for a plugin with an unknown trigger
\* whose job_id was never registered: no job, no registry entry, no file.
C33_RefusedNewJob ==
    /\ lastOp.op = "register_plugin_job"
    /\ lastOp.ret = "False"
    /\ lastOp.ev.args[1] \notin KnownTriggers
    /\ lastOp.id \notin DOMAIN jobs
    /\ lastOp.id \notin DOMAIN registry
    /\ lastOp.id \notin DOMAIN store

(* ------------------------------- C34 ---------------------------------- *)

\* What the store holds under j: the file's content, or None.
FileOf(st, j) == IF j \in DOMAIN st THEN st[j] ELSE NoneRec

\* C34: a registration (register_job, or a hybrid's register) of a job_id
\* the running scheduler already holds and the registry already maps, which
\* the scheduler rejects as a duplicate, leaves the job, its registry entry
\* and its stored file exactly as they were.
C34_DuplicateLeavesExisting ==
    [][\A j \in JobIds :
          (/\ lastOp'.op \in {"register_job", "register"}
           /\ lastOp'.id = j
           /\ lastOp'.ret = "False"
           /\ running
           /\ j \in DOMAIN jobs
           /\ j \in DOMAIN registry)
          => /\ j \in DOMAIN jobs' /\ jobs'[j] = jobs[j]
             /\ j \in DOMAIN registry' /\ registry'[j] = registry[j]
             /\ FileOf(store', j) = FileOf(store, j)]_vars

(* ------------------------------- C35 ---------------------------------- *)

\* remove_job(j), or unregister_handler() of the plugin whose job_id is j,
\* has just returned True.
Unregistered(j) ==
    /\ Returned({"remove_job", "unregister_handler"}, "True")
    /\ lastOp.id = j

\* C35: once remove_job or unregister_handler has returned True for a
\* job_id, no send or handle body of that job runs again.  Stated for the
\* first thing that happens after the call returned: that step leaves the
\* count of the job's body runs what it was.
C35_NoBodyAfterUnregister ==
    [][\A j \in JobIds : Unregistered(j) => fires'[j] = fires[j]]_vars

(* ------------------------------- C36 ---------------------------------- *)

\* The record stored under j is valid, says active, and resolves to a
\* plugin of the given kind.
ActiveResolvable(st, j, kind) ==
    /\ RecordSays(st, j, TRUE)
    /\ load_job(st, j).plugin_type = kind
    /\ plugin_loader(load_job(st, j)) # NoInstance

\* C36 (active records are live): while the bot runs, after startup
\* registrations, admin enables and disables and restarts, with no failure
\* of the disk or of Telegram and no unregister, remove or reschedule call,
\* every stored active record the loader resolves has a registry entry and
\* a live registration: an unpaused scheduler job for an outgoing record, a
\* handler in the application for an incoming one.
C36_ActiveRecordsLive ==
    (pc = "running" /\ ops = 0 /\ faults = 0)
    => \A j \in JobIds :
          /\ ActiveResolvable(store, j, "outgoing")
             => /\ j \in DOMAIN registry
                /\ j \in DOMAIN jobs
                /\ ~jobs[j].paused
          /\ ActiveResolvable(store, j, "incoming")
             => /\ j \in DOMAIN registry
                /\ handlers[ClassOf(j)] > 0

(* ------------------------------- C37 ---------------------------------- *)

\* C37 (pause state mirrors the active flag): when an admin enable or
\* disable has completed, however the store write inside it ended, every
\* job of an outgoing plugin the scheduler holds is paused exactly when the
\* record stored under its job_id says metadata.active == false.
C37_PauseMirrorsActive ==
    [][(\E action \in {"enable", "disable"}, i \in JobArgs :
            AdminCommandRan(action, i))
       => \A j \in DOMAIN jobs' :
             _get_plugin_type(jobs'[j].func) = "outgoing"
             => (jobs'[j].paused <=> StoredInactive(store', j))]_vars

(* ------------------------------- C38 ---------------------------------- *)

\* The step is one of main()'s startup: the load, the restore of a record,
\* the bootstrap of the defaults or its omission, the two starts.
StartupStep ==
    /\ pc \in {"load", "restore", "start_scheduler", "start_polling"}
    /\ lastOp'.op \in {"load_all_jobs", "restore", "defaults", "no_defaults",
                       "scheduler.start", "start_polling"}

\* C38 (startup does not rewrite existing records): no step of startup,
\* restore and bootstrap included, changes a record the store holds: every
\* field of it, metadata.active, created_at and the counters among them, is
\* after the step what it was before.
C38_StartupKeepsRecords ==
    [][StartupStep
       => \A j \in JobIds :
             load_job(store, j) # NoneRec
             => j \in DOMAIN store' /\ store'[j] = store[j]]_vars

(* ------------------------------- C39 ---------------------------------- *)

\* C39 (registry key matches the gate's key): in every state, each registry
\* entry is kept under the job_id its instance's get_job_id() returns, each
\* scheduler job has the id get_job_id() of the instance whose wrapper it
\* calls, and so the record the instance's active check reads is the one
\* stored under the registry key.
C39_RegistryKeyIsGateKey ==
    /\ \A j \in DOMAIN registry :
          /\ get_job_id(registry[j]) = j
          /\ _is_plugin_active(store, registry[j])
             = (load_job(store, j) = NoneRec \/ get_active(load_job(store, j)))
    /\ \A j \in DOMAIN jobs :
          /\ get_job_id(jobs[j].func) = j
          /\ j \in DOMAIN registry => registry[j] = jobs[j].func

\* After a restart the restore loop has just registered the outgoing job
\* of an active record, beside the manager's handler: registry and
\* scheduler hold them under the job_ids the gates read.
C39_RestoredUnderGateKey ==
    /\ restarts > 0
    /\ lastOp.op = "restore"
    /\ lastOp.ret = "outgoing"
    /\ lastOp.id \in DOMAIN registry
    /\ lastOp.id \in DOMAIN jobs
    /\ "PluginManagerCommand_handler" \in DOMAIN registry
    /\ RecordSays(store, lastOp.id, TRUE)

====
